---- MODULE Spec2Model ----
(***************************************************************************)
(* rundev: the reactive pipeline of main (src/unnamed/part_000) over the   *)
(* provisioning store of src/rundev.ts.                                    *)
(*                                                                         *)
(* Every observable of main is cold: partition(source, p) is the pair      *)
(* filter(p)(source), filter(not p)(source), so each .subscribe() of main  *)
(* builds a chain of its own back to watchFile(packageJsonPath), with its  *)
(* own readFile per notification, its own distinctUntilChanged memory and  *)
(* (below versionChange$) its own provisioning call and lockfile watcher.  *)
(* The state is therefore kept per subscription.                           *)
(*                                                                         *)
(* One action is one turn of the event loop: the callback and every        *)
(* synchronous emission it causes down the chain.                          *)
(***************************************************************************)
EXTENDS Integers, Sequences, FiniteSets, TLC

\* Number of "change" callbacks the scheduled subscriptions run after
\* startup: each notification runs one in every scheduled subscription.
MaxCallbacks == 2

\* undefined, and the empty string: both falsy in the source's tests.
UNDEF == ""
\* null, where the source yields an object or null.
Null == [null |-> TRUE]
\* The memory of a distinctUntilChanged that has not emitted yet.
First == [first |-> TRUE]

(***************************************************************************)
(* File contents.  A file's content is an index: 0 is "readFile rejects"   *)
(* (absent or unreadable, null in watchFile), and two different indexes    *)
(* are two different strings.                                              *)
(***************************************************************************)
Engines(node, npm, yarn, pnpm) ==
    [node |-> node, npm |-> npm, yarn |-> yarn, pnpm |-> pnpm]

\* The package.json texts the environment writes.  json = FALSE is a text
\* that JSON.parse or packageJsonSchema.parse rejects.  name is a field
\* the schema ignores.
ManifestTexts ==
    << [json |-> TRUE, name |-> "app", packageManager |-> UNDEF,
        engines |-> Engines(">=18.0.0", UNDEF, UNDEF, UNDEF)],
       [json |-> TRUE, name |-> "renamed", packageManager |-> UNDEF,
        engines |-> Engines(">=18.0.0", UNDEF, UNDEF, UNDEF)],
       [json |-> TRUE, name |-> "app", packageManager |-> "npm@9.1.0",
        engines |-> Engines("18.0.0", UNDEF, UNDEF, UNDEF)],
       [json |-> TRUE, name |-> "app", packageManager |-> UNDEF,
        engines |-> Null],
       [json |-> FALSE, name |-> "app", packageManager |-> UNDEF,
        engines |-> Null] >>

ManifestFiles == 0 .. Len(ManifestTexts)

\* semver.minVersion(range, { loose: true })?.version on the ranges used
\* here; UNDEF where semver throws or returns null.
semverMinVersion(range) ==
    CASE range = ">=18.0.0" -> "18.0.0"
      [] range = "18.0.0"   -> "18.0.0"
      [] range = "20.2.0"   -> "20.2.0"
      [] range = "9.1.0"    -> "9.1.0"
      [] range = "8.6.0"    -> "8.6.0"
      [] range = "1.22.0"   -> "1.22.0"
      [] OTHER              -> UNDEF

parseVersion(version) ==
    IF version = UNDEF THEN UNDEF ELSE semverMinVersion(version)

determineNodeVersion(packageJson) ==
    IF packageJson.engines = Null
    THEN parseVersion(UNDEF)
    ELSE parseVersion(packageJson.engines.node)

\* packageManager?.match(packageManagerRegex)?.groups ?? {}
packageManagerRegex(packageManager) ==
    CASE packageManager = "pnpm@8.6.0"  -> [name |-> "pnpm", version |-> "8.6.0"]
      [] packageManager = "yarn@1.22.0" -> [name |-> "yarn", version |-> "1.22.0"]
      [] packageManager = "npm@9.1.0"   -> [name |-> "npm", version |-> "9.1.0"]
      [] packageManager = "npm@99999999999999999999.0.0"
                                        -> [name |-> "npm",
                                            version |-> "99999999999999999999.0.0"]
      [] OTHER                          -> [name |-> UNDEF, version |-> UNDEF]

PackageManagerResult(type, name, version) ==
    [type |-> type, name |-> name, version |-> version]

determinePackageManager(packageJson) ==
    LET groups == packageManagerRegex(packageJson.packageManager)
        semverVersion == parseVersion(groups.version)
        engines == packageJson.engines
    IN  IF groups.name # UNDEF /\ semverVersion # UNDEF
        THEN PackageManagerResult("packageManager", groups.name, semverVersion)
        ELSE IF engines # Null /\ engines.npm # UNDEF
                  /\ parseVersion(engines.npm) # UNDEF
        THEN PackageManagerResult("engines", "npm", parseVersion(engines.npm))
        ELSE IF engines # Null /\ engines.yarn # UNDEF
                  /\ parseVersion(engines.yarn) # UNDEF
        THEN PackageManagerResult("engines", "yarn", parseVersion(engines.yarn))
        ELSE IF engines # Null /\ engines.pnpm # UNDEF
                  /\ parseVersion(engines.pnpm) # UNDEF
        THEN PackageManagerResult("engines", "pnpm", parseVersion(engines.pnpm))
        ELSE PackageManagerResult("bundled", "npm", UNDEF)

PACKAGE_MANAGERS(name) ==
    CASE name = "npm"  -> [executableName |-> "npm",
                           lockfile |-> "package-lock.json",
                           installCommand |-> "install"]
      [] name = "yarn" -> [executableName |-> "yarn",
                           lockfile |-> "yarn.lock",
                           installCommand |-> "install"]
      [] name = "pnpm" -> [executableName |-> "pnpm.cjs",
                           lockfile |-> "pnpm-lock.yaml",
                           installCommand |-> "install"]

\* A parse that falls back to an empty manifest object instead of null.
parseOrEmpty(file) ==
    IF ManifestTexts[file].json
    THEN [packageManager |-> ManifestTexts[file].packageManager,
          engines |-> ManifestTexts[file].engines]
    ELSE [packageManager |-> UNDEF, engines |-> Null]

\* The switchMap of fileChanges$: packageJsonSchema.parse(JSON.parse(file)),
\* null when either throws.
parsePackageJson(file) ==
    IF ManifestTexts[file].json
    THEN [packageManager |-> ManifestTexts[file].packageManager,
          engines |-> ManifestTexts[file].engines]
    ELSE Null

\* The map of packageJsonChanges$: the version decision, or null.
resolveVersion(packageJson) ==
    LET nodeVersion == determineNodeVersion(packageJson)
        packageManager == determinePackageManager(packageJson)
    IN  IF nodeVersion # UNDEF
        THEN [nodeVersion |-> nodeVersion, packageManager |-> packageManager]
        ELSE Null

\* The default comparator, ===, on two objects built by two calls of map.
referenceEqual(prev, curr) == FALSE

\* The comparator of distinctUntilChanged on the version decision:
\* JSON.stringify(prev) === JSON.stringify(curr).  Both sides are plain
\* data built with the same key order, so the strings are equal exactly
\* when the values are.
sameVersion(prev, curr) == prev = curr


(***************************************************************************)
(* The subscriptions of main, each named after the stream subscribed to.   *)
(***************************************************************************)
Subscriptions ==
    {"fileErrors", "packageJsonErrors", "versionErrors", "versionChange",
     "storeErrors", "lockfileErrors", "lockfileChanges", "process"}

\* The subscriptions whose chain contains the map/distinctUntilChanged of
\* versionChange$ (all but the two that end above it).
HasVersionStage(c) == c \notin {"fileErrors", "packageJsonErrors"}
\* The subscriptions whose chain contains the provisioning switchMap.
HasProvisioning(c) ==
    c \in {"storeErrors", "lockfileErrors", "lockfileChanges", "process"}
\* The subscriptions whose chain contains the lockfile switchMap.
HasLockfileWatch(c) == c \in {"lockfileErrors", "lockfileChanges", "process"}

\* The groups of subscriptions whose callbacks run in one behaviour.  The
\* subscriptions share no state but the registry file, the store and the
\* process they run in, so each is explored alone, and the two that
\* provision and act on the result are explored together; the callbacks of
\* the other subscriptions are still pending in these behaviours.
Schedules ==
    {{c} : c \in Subscriptions} \cup {{"storeErrors", "process"}}

Lockfiles == {"package-lock.json"}
\* Lockfile contents: 0 is absent or unreadable.
LockfileTexts == 0 .. 2

DEFAULT_REGISTRY ==
    [nodeVersions |-> {},
     packageManagers |-> [npm |-> {}, yarn |-> {}, pnpm |-> {}]]

\* path.join(STORE, name, version, "bin", executable)
StorePath(dir, name, version, bin) ==
    [dir |-> dir, name |-> name, version |-> version, bin |-> bin]

\* No child process has been spawned yet.
NoProcess ==
    [kind |-> "none", nodePath |-> Null, packageManagerPath |-> Null,
     status |-> "none", killed |-> FALSE, installCode |-> 0,
     n |-> 0, at |-> [manifest |-> 0, lockfile |-> 0]]

\* new Observable(...) of spawnProcess at subscription: spawn(command, args).
\* Kept with the process, for the properties: installCode, the exit code
\* of the install the process follows; n, the number of installs spawned
\* so far; at, the change notifications that preceded that install.
spawnProcess(kind, paths, installCode, n, at) ==
    [kind |-> kind, nodePath |-> paths.nodePath,
     packageManagerPath |-> paths.packageManagerPath,
     status |-> "running", killed |-> FALSE, installCode |-> installCode,
     n |-> n, at |-> at]

\* A teardown that leaves the process alone.
killNothing(p) == p

\* The teardown of spawnProcess, return () => proc.kill(), run when the
\* inner subscription of the process switchMap is unsubscribed: a kill
\* request to the process if it has not exited.
kill(p) ==
    IF p.status = "running" THEN [p EXCEPT !.killed = TRUE] ELSE p

VARIABLES
    manifest,      \* content of package.json at the project root
    lockfiles,     \* content of each lockfile at the project root
    registryFile,  \* content of ~/.rundev/registry.json
    store,         \* <<name, version>> of the archives extracted under ~/.rundev
    watch,         \* per subscription: watchFile(packageJsonPath)
    version,       \* per subscription: distinctUntilChanged of versionChange$
    tasks,         \* running invocations of the async provisioning function
    provisioned,   \* per subscription: the value the provisioning switchMap emitted last
    lockWatch,     \* per subscription: the inner watchFile of the lockfile switchMap
    proc,          \* the child process spawned last
    subscribed,    \* the process switchMap is subscribed to proc
    others,        \* the child processes spawned before proc that have not exited:
                   \* their kinds and whether kill was requested (a set: two
                   \* alike count as one)
    log,           \* the subscriptions whose console.log has run
    crashed,       \* an error reached a subscribe() without error handler
    changes,       \* change notifications so far
    scheduled,     \* the subscriptions whose callbacks run
    call           \* a function called on its own: its arguments, its position
                   \* and what it has returned (none while main runs)

vars == <<manifest, lockfiles, registryFile, store, watch, version, tasks,
          provisioned, lockWatch, proc, subscribed, others, log, crashed, changes,
          scheduled, call>>

\* No function is called on its own: main runs.
NoCall == [op |-> "main"]

\* The "change" callbacks run so far.
Callbacks == (changes.manifest + changes.lockfile) * Cardinality(scheduled)

\* The node process has exited on an uncaught exception: its pending
\* callbacks, promises and watchers are gone with it.
NoWatch == [c \in Subscriptions |-> [watch[c] EXCEPT !.reading = FALSE]]
NoLockWatch ==
    [c \in Subscriptions |->
        [lockWatch[c] EXCEPT !.on = FALSE, !.reading = FALSE]]

\* watchFile(path) at subscription: startWith(null) has started a readFile
\* and distinctUntilChanged has no previous value (-1).
\* prev is the value delivered before last, kept for the properties.
watchFile == [reading |-> TRUE, last |-> -1, prev |-> -1]

\* A watchFile without distinctUntilChanged: every value read is delivered.
everyValue(last, value) == TRUE

\* distinctUntilChanged() of watchFile: === on the string or null.
distinctUntilChanged(last, value) == value # last

\* A version stage that forgets the decision when package.json is unreadable.
forgetOnFileError(v, route, decision) ==
    IF route = "fileErrors" THEN [v EXCEPT !.last = First]
    ELSE IF route = "versionErrors" THEN [v EXCEPT !.last = Null]
    ELSE IF route = "versionChange"
    THEN [last |-> decision, count |-> v.count + 1]
    ELSE v

\* The memory of distinctUntilChanged on the version decision after a value
\* of package.json went down the chain by route: the decision emitted last
\* (null included), and count, the values versionChange$ has emitted.
versionMemory(v, route, decision) ==
    IF route = "versionErrors" THEN [v EXCEPT !.last = Null]
    ELSE IF route = "versionChange"
    THEN [last |-> decision, count |-> v.count + 1]
    ELSE v

Init ==
    /\ manifest = 1
    /\ lockfiles \in [Lockfiles -> {0, 1}]
    /\ registryFile = DEFAULT_REGISTRY
    /\ store = {}
    /\ watch = [c \in Subscriptions |-> watchFile]
    /\ version = [c \in Subscriptions |-> [last |-> First, count |-> 0]]
    /\ tasks = {}
    /\ provisioned = [c \in Subscriptions |-> First]
    /\ lockWatch = [c \in Subscriptions |->
                      [on |-> FALSE, file |-> "package-lock.json",
                       reading |-> FALSE, last |-> -1, paths |-> Null,
                       count |-> 0, since |-> 0]]
    /\ proc = NoProcess
    /\ subscribed = FALSE
    /\ others = {}
    /\ log = {}
    /\ crashed = FALSE
    /\ changes = [manifest |-> 0, lockfile |-> 0]
    /\ scheduled \in Schedules
    /\ call = NoCall

(***************************************************************************)
(* package.json                                                            *)
(***************************************************************************)
\* Where a value read by watchFile(packageJsonPath) ends in the chain of
\* subscription c.
Route(c, file) ==
    IF ~distinctUntilChanged(watch[c].last, file) THEN "unchanged"
    ELSE IF file = 0 THEN "fileErrors"
    ELSE IF c = "fileErrors" THEN "filtered"
    ELSE IF parsePackageJson(file) = Null THEN "packageJsonErrors"
    ELSE IF c = "packageJsonErrors" THEN "filtered"
    ELSE IF sameVersion(version[c].last, resolveVersion(parsePackageJson(file)))
         THEN "sameVersion"
    ELSE IF resolveVersion(parsePackageJson(file)) = Null THEN "versionErrors"
    ELSE "versionChange"

\* The async function of the provisioning switchMap, called with a decision:
\* it runs up to its first await, the readFile of getRegistry.
Provisioning(c, n, decision) ==
    [sub |-> c, n |-> n, decision |-> decision, pc |-> "getRegistry",
     registry |-> DEFAULT_REGISTRY]

\* fs.watch emits "change" on package.json: every subscription's switchMap
\* drops its pending readFile and starts a new one.
ManifestChange(m) ==
    /\ ~crashed
    /\ Callbacks + Cardinality(scheduled) <= MaxCallbacks
    /\ m # manifest
    /\ manifest' = m
    /\ watch' = [c \in Subscriptions |-> [watch[c] EXCEPT !.reading = TRUE]]
    /\ changes' = [changes EXCEPT !.manifest = @ + 1]
    /\ UNCHANGED <<lockfiles, registryFile, store, version, tasks, lockWatch,
                   proc, subscribed, others, log, crashed,
                   scheduled, call, provisioned>>

\* The readFile of subscription c settles and its value runs down the chain.
ManifestRead(c) ==
    LET route == Route(c, manifest)
        decision == resolveVersion(parsePackageJson(manifest))
    IN  /\ ~crashed
        /\ c \in scheduled
        /\ watch[c].reading
        /\ watch' = [watch EXCEPT ![c] =
                        IF route = "unchanged"
                        THEN [@ EXCEPT !.reading = FALSE]
                        ELSE [reading |-> FALSE, last |-> manifest,
                              prev |-> @.last]]
        /\ version' = [version EXCEPT ![c] = versionMemory(@, route, decision)]
        /\ tasks' =
             IF route = "versionChange" /\ HasProvisioning(c)
             THEN tasks \cup {Provisioning(c, version[c].count + 1, decision)}
             ELSE tasks
        /\ log' =
             IF route = c /\ (c = "versionChange" => version[c].count >= 1)
             THEN log \cup {c}
             ELSE log
        /\ UNCHANGED <<manifest, lockfiles, registryFile, store, lockWatch,
                       proc, subscribed, others, crashed, changes,
                   scheduled, call, provisioned>>


(***************************************************************************)
(* The provisioning store (src/rundev.ts)                                  *)
(***************************************************************************)
NodeKey(nodeVersion) == <<"node", nodeVersion>>
PackageManagerKey(packageManager) ==
    <<packageManager.name, packageManager.version>>

\* The path ensureNodeVersion returns.
NodePath(nodeVersion) ==
    StorePath("node-versions", "node", nodeVersion, "node")

\* The path ensurePackageManager returns: the npm bundled with the node
\* version when the manifest names no package manager.
PackageManagerPath(packageManagerSpec, packageManager, nodeVersion) ==
    IF packageManager.type = "bundled"
    THEN StorePath("node-versions", "node", nodeVersion, "npm")
    ELSE StorePath("package-managers", packageManager.name,
                   packageManager.version, packageManagerSpec.executableName)

\* The value the provisioning function returns when nothing throws.
Provisioned(decision) ==
    LET packageManagerSpec == PACKAGE_MANAGERS(decision.packageManager.name)
    IN  [packageManagerSpec |-> packageManagerSpec,
         nodePath |-> NodePath(decision.nodeVersion),
         packageManagerPath |->
             PackageManagerPath(packageManagerSpec, decision.packageManager,
                                decision.nodeVersion)]

\* A lookup that never finds the version.
alwaysMissing(registry, decision) == TRUE

\* ensureNodeVersion: !registry.nodeVersions.includes(version)
NodeMissing(registry, decision) ==
    decision.nodeVersion \notin registry.nodeVersions

\* ensurePackageManager: a package manager is named and
\* !registry.packageManagers[name]?.includes(version)
PackageManagerMissing(registry, decision) ==
    /\ decision.packageManager.type # "bundled"
    /\ decision.packageManager.version
         \notin registry.packageManagers[decision.packageManager.name]

\* install(url, pathToSave): whether the promise rejects when the download
\* or the extraction fails.  The catch logs the error and returns.
installRejects(fetched) == FALSE

\* registry.nodeVersions.push(version)
pushNodeVersion(registry, nodeVersion) ==
    [registry EXCEPT !.nodeVersions = @ \cup {nodeVersion}]

\* registry.packageManagers[name].push(version)
pushPackageManager(registry, packageManager) ==
    [registry EXCEPT !.packageManagers[packageManager.name] =
                         @ \cup {packageManager.version}]

\* Where the provisioning function stops next, with the registry object it
\* holds: at the await of an install, or at its return.
AfterNode(registry, decision) ==
    IF PackageManagerMissing(registry, decision)
    THEN "installPackageManager" ELSE "return"

AfterRegistry(registry, decision) ==
    IF NodeMissing(registry, decision)
    THEN "installNodeVersion" ELSE AfterNode(registry, decision)

\* The inner subscription of the provisioning switchMap is still the one
\* of this call (no later decision has replaced it).
Current(t) == t.n = version[t.sub].count

\* The processes other than the latest that have not exited, after the
\* process switchMap has unsubscribed from p.
Left(p) ==
    IF p.status = "running"
    THEN others \cup {[kind |-> kill(p).kind, killed |-> kill(p).killed]}
    ELSE others

\* The promise of provisioning call t settles with result (null when it
\* threw): what subscription t.sub does with it.
Deliver(t, result) ==
    LET c == t.sub
        file == result.packageManagerSpec.lockfile
    IN  IF ~Current(t)
        THEN \* the switchMap has unsubscribed from this promise
             /\ tasks' = tasks \ {t}
             /\ UNCHANGED <<watch, provisioned, lockWatch, proc, subscribed,
                            others, log, crashed>>
        ELSE /\ provisioned' = [provisioned EXCEPT ![c] = result]
             /\ IF result = Null
                THEN /\ tasks' = tasks \ {t}
                     /\ log' = IF c = "storeErrors" THEN log \cup {c} ELSE log
                     /\ UNCHANGED <<watch, lockWatch, proc, subscribed,
                                    others, crashed>>
                ELSE IF ~HasLockfileWatch(c)
                THEN /\ tasks' = tasks \ {t}
                     /\ UNCHANGED <<watch, lockWatch, proc, subscribed,
                                    others, log, crashed>>
                ELSE IF lockfiles[file] = 0
                THEN \* fs.watch(path) throws ENOENT inside the project
                     \* function of the lockfile switchMap: the subscription
                     \* errors and is torn down, and the error, which no
                     \* handler takes, is rethrown from a timer.
                     /\ crashed' = TRUE
                     /\ proc' = IF c = "process" /\ subscribed
                                THEN kill(proc) ELSE proc
                     /\ subscribed' = FALSE
                     /\ tasks' = {}
                     /\ watch' = NoWatch
                     /\ lockWatch' = NoLockWatch
                     /\ UNCHANGED <<others, log>>
                ELSE /\ tasks' = tasks \ {t}
                     /\ lockWatch' = [lockWatch EXCEPT ![c] =
                           [on |-> TRUE, file |-> file, reading |-> TRUE,
                            last |-> -1, paths |-> result, count |-> @.count,
                            since |-> 0]]
                     /\ UNCHANGED <<watch, proc, subscribed, others, log,
                                    crashed>>

\* The provisioning call t goes on with registry object registry up to pc.
Continue(t, registry, pc) ==
    IF pc = "return"
    THEN Deliver(t, Provisioned(t.decision))
    ELSE IF pc = "throw"
    THEN Deliver(t, Null)
    ELSE /\ tasks' = (tasks \ {t}) \cup
                       {[t EXCEPT !.pc = pc, !.registry = registry]}
         /\ UNCHANGED <<watch, provisioned, lockWatch, proc, subscribed,
                        others, log, crashed>>

\* The readFile of getRegistry settles.
getRegistry(t) ==
    /\ ~crashed
    /\ t.pc = "getRegistry"
    /\ Continue(t, registryFile, AfterRegistry(registryFile, t.decision))
    /\ UNCHANGED <<manifest, lockfiles, registryFile, store, version,
                   changes, scheduled, call>>

\* installNodeVersion: install settles (the archive is fetched and
\* extracted, or not), then the registry is pushed to and written.
installNodeVersion(t, fetched, written) ==
    LET registry == pushNodeVersion(t.registry, t.decision.nodeVersion)
    IN  /\ ~crashed
        /\ t.pc = "installNodeVersion"
        /\ store' = IF fetched THEN store \cup {NodeKey(t.decision.nodeVersion)}
                    ELSE store
        /\ IF installRejects(fetched)
           THEN /\ UNCHANGED registryFile
                /\ Continue(t, t.registry, "throw")
           ELSE IF ~written
           THEN /\ UNCHANGED registryFile
                /\ Continue(t, registry, "throw")
           ELSE /\ registryFile' = registry
                /\ Continue(t, registry, AfterNode(registry, t.decision))
        /\ UNCHANGED <<manifest, lockfiles, version, changes, scheduled, call>>

\* installPackageManager: the same for the package manager.
installPackageManager(t, fetched, written) ==
    LET registry == pushPackageManager(t.registry, t.decision.packageManager)
    IN  /\ ~crashed
        /\ t.pc = "installPackageManager"
        /\ store' = IF fetched
                    THEN store \cup {PackageManagerKey(t.decision.packageManager)}
                    ELSE store
        /\ IF installRejects(fetched)
           THEN /\ UNCHANGED registryFile
                /\ Continue(t, t.registry, "throw")
           ELSE IF ~written
           THEN /\ UNCHANGED registryFile
                /\ Continue(t, registry, "throw")
           ELSE /\ registryFile' = registry
                /\ Continue(t, registry, "return")
        /\ UNCHANGED <<manifest, lockfiles, version, changes, scheduled, call>>

(***************************************************************************)
(* The lockfile and the child processes                                    *)
(***************************************************************************)
\* fs.watch emits "change" on a lockfile: every subscribed watchFile of it
\* drops its pending readFile and starts a new one.
LockfileChange(file, text) ==
    /\ ~crashed
    /\ Callbacks + Cardinality(scheduled) <= MaxCallbacks
    /\ text # lockfiles[file]
    /\ lockfiles' = [lockfiles EXCEPT ![file] = text]
    /\ lockWatch' = [c \in Subscriptions |->
                       IF lockWatch[c].on /\ lockWatch[c].file = file
                       THEN [lockWatch[c] EXCEPT !.reading = TRUE]
                       ELSE lockWatch[c]]
    /\ changes' = [changes EXCEPT !.lockfile = @ + 1]
    /\ UNCHANGED <<manifest, registryFile, store, watch, version, tasks,
                   proc, subscribed, others, log, crashed,
                   scheduled, call, provisioned>>

\* The readFile of the lockfile watcher of subscription c settles.  The map
\* replaces whatever was read, null included, by the provisioned paths.
LockfileRead(c) ==
    LET w == lockWatch[c]
        text == lockfiles[w.file]
        emits == distinctUntilChanged(w.last, text)
    IN  /\ ~crashed
        /\ w.on /\ w.reading
        /\ lockWatch' = [lockWatch EXCEPT ![c].reading = FALSE,
                                          ![c].last = text,
                                          ![c].count =
                                              IF emits /\ c = "lockfileChanges"
                                              THEN 1 ELSE @,
                                          ![c].since =
                                              IF w.last = -1
                                              THEN changes.lockfile ELSE @]
        /\ log' = IF emits /\ c = "lockfileChanges" /\ w.count >= 1
                  THEN log \cup {c} ELSE log
        /\ IF emits /\ c = "process"
           THEN /\ others' = IF subscribed THEN Left(proc) ELSE others
                /\ proc' = spawnProcess("install", w.paths, 0, proc.n + 1,
                                         changes)
                /\ subscribed' = TRUE
           ELSE UNCHANGED <<proc, subscribed, others>>
        /\ UNCHANGED <<manifest, lockfiles, registryFile, store, watch,
                       version, tasks, crashed, changes,
                   scheduled, call, provisioned>>

ExitCodes == {0, 1}

\* proc.on("exit", () => subscriber.complete()) on the process subscribed
\* to: concat goes on to the dev server after the install, whatever the
\* exit code; after the dev server the inner observable completes.
ProcExit(code) ==
    /\ subscribed
    /\ proc.status = "running"
    /\ IF proc.kind = "install"
       THEN /\ proc' = spawnProcess("run", proc, code, proc.n, proc.at)
            /\ UNCHANGED subscribed
       ELSE /\ proc' = [proc EXCEPT !.status = "exited"]
            /\ subscribed' = FALSE
    /\ UNCHANGED <<manifest, lockfiles, registryFile, store, watch, version,
                   tasks, lockWatch, others, log, crashed, changes,
                   scheduled, call, provisioned>>

\* The exit of a process whose subscriber is closed: complete() does nothing.
ExitUnsubscribed ==
    /\ ~subscribed
    /\ proc.status = "running"
    /\ proc' = [proc EXCEPT !.status = "exited"]
    /\ UNCHANGED <<manifest, lockfiles, registryFile, store, watch, version,
                   tasks, lockWatch, subscribed, others, log, crashed, changes,
                   scheduled, call, provisioned>>

\* An exit that lets concat go on although its subscriber is closed: the
\* exit of a cancelled install spawns its dev server.
OtherExitRunsNext(p) ==
    /\ others' = (others \ {p}) \cup
                    (IF p.kind = "install"
                     THEN {[kind |-> "run", killed |-> FALSE]} ELSE {})
    /\ UNCHANGED <<manifest, lockfiles, registryFile, store, watch, version,
                   tasks, lockWatch, proc, subscribed, log, crashed, changes,
                   scheduled, call, provisioned>>

\* The exit of an earlier process: its subscriber is closed too.
OtherExit(p) ==
    /\ others' = others \ {p}
    /\ UNCHANGED <<manifest, lockfiles, registryFile, store, watch, version,
                   tasks, lockWatch, proc, subscribed, log, crashed, changes,
                   scheduled, call, provisioned>>

\* proc.on("error", (err) => subscriber.error(err)) on the process
\* subscribed to: the error reaches subscribe(), which has no error handler.
ProcError ==
    /\ subscribed
    /\ proc.status = "running"
    /\ proc' = [proc EXCEPT !.status = "error"]
    /\ subscribed' = FALSE
    /\ crashed' = TRUE
    /\ tasks' = {}
    /\ watch' = NoWatch
    /\ lockWatch' = NoLockWatch
    /\ UNCHANGED <<manifest, lockfiles, registryFile, store, version,
                   provisioned, others, log, changes, scheduled, call>>

Next ==
    \/ \E m \in ManifestFiles : ManifestChange(m)
    \/ \E c \in Subscriptions : ManifestRead(c)
    \/ \E t \in tasks : getRegistry(t)
    \/ \E t \in tasks, fetched, written \in BOOLEAN :
           installNodeVersion(t, fetched, written)
    \/ \E t \in tasks, fetched, written \in BOOLEAN :
           installPackageManager(t, fetched, written)
    \/ \E file \in Lockfiles, text \in LockfileTexts : LockfileChange(file, text)
    \/ \E c \in Subscriptions : LockfileRead(c)
    \/ \E code \in ExitCodes : ProcExit(code)
    \/ ExitUnsubscribed
    \/ \E p \in others : OtherExit(p)
    \/ ProcError

Spec == Init /\ [][Next]_vars


(***************************************************************************)
(* Functions called on their own.  The files and the store are the         *)
(* variables above; the pipeline of main does not run.                     *)
(***************************************************************************)
\* What main holds, left alone while a function is called on its own.
pipeline ==
    <<manifest, lockfiles, watch, version, tasks, provisioned, lockWatch,
      proc, subscribed, others, log, crashed, changes, scheduled>>

\* Depth of the deepest start directory; directory 0 is the filesystem root
\* and the parent of directory d is d - 1.
MaxDepth == 3
Directories == 0 .. MaxDepth

\* path.dirname: the filesystem root is its own parent.
dirname(path) == IF path = 0 THEN 0 ELSE path - 1

isRoot(path) == path = dirname(path)

\* package.json in a directory: absent, or present with a text that
\* JSON.parse accepts or rejects.
MarkerFiles == {"absent", "valid", "invalid"}

\* A search for the project root from startPath: path is the directory
\* looked at, emitted the directories looked at so far, in order.
RootCalls ==
    {[op |-> op, markers |-> markers, startPath |-> startPath,
      path |-> startPath, emitted |-> <<startPath>>, status |-> "running"] :
        op \in {"findProjectRoot", "findNearestPackageJson"},
        markers \in [Directories -> MarkerFiles],
        startPath \in Directories}

\* findProjectRoot (part_000): stat(join(path, filename)) settles inside
\* expand.  Fulfilled: EMPTY, and the observable completes on path, its last
\* value.  Rejected: an error at the root, the parent as next value otherwise.
findProjectRoot ==
    /\ call.op = "findProjectRoot"
    /\ call.status = "running"
    /\ call' =
         IF call.markers[call.path] # "absent"
         THEN [call EXCEPT !.status = "complete"]
         ELSE IF isRoot(call.path)
         THEN [call EXCEPT !.status = "error"]
         ELSE [call EXCEPT !.path = dirname(call.path),
                           !.emitted = Append(@, dirname(call.path))]
    /\ UNCHANGED <<pipeline, registryFile, store>>

\* findNearestPackageJson (rundev.ts): one turn of the loop.  The try holds
\* both the readFile and the JSON.parse; the catch goes to the parent, or
\* breaks at the root and the function returns undefined.
findNearestPackageJson ==
    /\ call.op = "findNearestPackageJson"
    /\ call.status = "running"
    /\ call' =
         IF call.markers[call.path] = "valid"
         THEN [call EXCEPT !.status = "complete"]
         ELSE IF call.path = dirname(call.path)
         THEN [call EXCEPT !.status = "error"]
         ELSE [call EXCEPT !.path = dirname(call.path),
                           !.emitted = Append(@, dirname(call.path))]
    /\ UNCHANGED <<pipeline, registryFile, store>>

\* The packageManager and engines fields a package.json is given: tokens
\* the regex matches, one it does not match ("npm@latest"), one whose
\* version semver rejects, and ranges semver parses or rejects ("latest").
PackageManagerTexts ==
    {UNDEF, "npm@9.1.0", "yarn@1.22.0", "pnpm@8.6.0", "npm@latest",
     "npm@99999999999999999999.0.0"}

PackageJsons ==
    {[packageManager |-> pm, engines |-> e] :
        pm \in PackageManagerTexts,
        e \in {Null} \cup
              {Engines(">=18.0.0", n, y, p) :
                  n \in {UNDEF, "9.1.0", "latest"},
                  y \in {UNDEF, "1.22.0", "latest"},
                  p \in {UNDEF, "8.6.0", "latest"}}}

\* generateSpec (rundev.ts): semver.minVersion(version) throws on a range
\* it cannot parse, and nothing catches it.
generateSpec(name, range) ==
    IF semverMinVersion(range) = UNDEF
    THEN [threw |-> TRUE]
    ELSE [name |-> name, version |-> semverMinVersion(range),
          executableName |-> PACKAGE_MANAGERS(name).executableName,
          lockfile |-> PACKAGE_MANAGERS(name).lockfile,
          installCommand |-> PACKAGE_MANAGERS(name).installCommand]

\* undefined, where rundev.ts yields a spec object or undefined.
NoSpec == [undefined |-> TRUE]

\* determinePackageManager(engines) of rundev.ts: undefined (NoSpec) is the
\* bundled npm.
rundevDeterminePackageManager(engines) ==
    IF engines # Null /\ engines.npm # UNDEF
    THEN generateSpec("npm", engines.npm)
    ELSE IF engines # Null /\ engines.yarn # UNDEF
    THEN generateSpec("yarn", engines.yarn)
    ELSE IF engines # Null /\ engines.pnpm # UNDEF
    THEN generateSpec("pnpm", engines.pnpm)
    ELSE NoSpec

\* A call of one of the two determinePackageManager on a package.json.
ResolveCalls ==
    {[op |-> op, packageJson |-> pj, status |-> "running", result |-> Null] :
        op \in {"determinePackageManager", "rundevDeterminePackageManager"},
        pj \in PackageJsons}

\* determinePackageManager(packageJson) of part_000 returns.
determinePackageManagerCall ==
    /\ call.op = "determinePackageManager"
    /\ call.status = "running"
    /\ call' = [call EXCEPT !.status = "complete",
                            !.result = determinePackageManager(call.packageJson)]
    /\ UNCHANGED <<pipeline, registryFile, store>>

\* determinePackageManager(packageJson.engines) of rundev.ts returns or
\* throws.
rundevDeterminePackageManagerCall ==
    LET result == rundevDeterminePackageManager(call.packageJson.engines)
    IN  /\ call.op = "rundevDeterminePackageManager"
        /\ call.status = "running"
        /\ call' = [call EXCEPT
                      !.status = IF result = [threw |-> TRUE]
                                 THEN "error" ELSE "complete",
                      !.result = result]
        /\ UNCHANGED <<pipeline, registryFile, store>>

\* The version decisions the ensure functions are called with.
Decisions ==
    {resolveVersion(parsePackageJson(file)) : file \in {1, 3}}

\* What registry.json and the store hold before the calls.
Stores ==
    {[file |-> DEFAULT_REGISTRY, store |-> {}],
     [file |-> pushNodeVersion(DEFAULT_REGISTRY, "18.0.0"),
      store |-> {NodeKey("18.0.0")}],
     [file |-> pushNodeVersion(DEFAULT_REGISTRY, "20.2.0"),
      store |-> {NodeKey("20.2.0")}],
     [file |-> [DEFAULT_REGISTRY EXCEPT !.packageManagers["npm"] = {"9.1.0"}],
      store |-> {<<"npm", "9.1.0">>}]}

\* A caller that calls one ensure function twice in succession with the
\* same key, each time with the registry object it holds: the same object
\* for both calls, or (reread) one it gets from getRegistry before each.
\* fetches counts the calls of install; results are the paths returned,
\* [threw |-> TRUE] for a call that threw.
EnsureCalls ==
    {[op |-> op, decision |-> decision, reread |-> reread, pc |-> "getRegistry",
      registry |-> DEFAULT_REGISTRY, fetches |-> 0, results |-> << >>] :
        op \in {"ensureNodeVersion", "ensurePackageManager"},
        decision \in Decisions,
        reread \in BOOLEAN}

\* The caller after a call has returned result (a path) or thrown.
AfterCall(c, result) ==
    LET results == Append(c.results, result)
    IN  [c EXCEPT !.results = results,
                  !.pc = IF Len(results) = 2 THEN "done"
                         ELSE IF c.reread THEN "getRegistry" ELSE "call"]

\* const registry = await getRegistry() in the caller.
getRegistryCall ==
    /\ call.op \in {"ensureNodeVersion", "ensurePackageManager"}
    /\ call.pc = "getRegistry"
    /\ call' = [call EXCEPT !.registry = registryFile, !.pc = "call"]
    /\ UNCHANGED <<pipeline, registryFile, store>>

\* ensureNodeVersion(version, registry) up to its await or its return.
ensureNodeVersion ==
    /\ call.op = "ensureNodeVersion"
    /\ call.pc = "call"
    /\ call' = IF NodeMissing(call.registry, call.decision)
               THEN [call EXCEPT !.pc = "install"]
               ELSE AfterCall(call, NodePath(call.decision.nodeVersion))
    /\ UNCHANGED <<pipeline, registryFile, store>>

\* ensurePackageManager(packageManager, registry, nodeVersion) up to its
\* await or its return.
ensurePackageManager ==
    LET packageManager == call.decision.packageManager
    IN  /\ call.op = "ensurePackageManager"
        /\ call.pc = "call"
        /\ call' = IF PackageManagerMissing(call.registry, call.decision)
                   THEN [call EXCEPT !.pc = "install"]
                   ELSE AfterCall(call,
                          PackageManagerPath(PACKAGE_MANAGERS(packageManager.name),
                                             packageManager,
                                             call.decision.nodeVersion))
        /\ UNCHANGED <<pipeline, registryFile, store>>

\* installNodeVersion / installPackageManager inside the call: install
\* settles, the registry object is pushed to and written, and the ensure
\* function returns its path; a failed write throws.
ensureInstall(fetched, written) ==
    LET decision == call.decision
        isNode == call.op = "ensureNodeVersion"
        key == IF isNode THEN NodeKey(decision.nodeVersion)
               ELSE PackageManagerKey(decision.packageManager)
        registry == IF isNode
                    THEN pushNodeVersion(call.registry, decision.nodeVersion)
                    ELSE pushPackageManager(call.registry, decision.packageManager)
        path == IF isNode THEN NodePath(decision.nodeVersion)
                ELSE PackageManagerPath(
                         PACKAGE_MANAGERS(decision.packageManager.name),
                         decision.packageManager, decision.nodeVersion)
        fetching == [call EXCEPT !.fetches = @ + 1]
    IN  /\ call.op \in {"ensureNodeVersion", "ensurePackageManager"}
        /\ call.pc = "install"
        /\ store' = IF fetched THEN store \cup {key} ELSE store
        /\ IF installRejects(fetched)
           THEN /\ UNCHANGED registryFile
                /\ call' = AfterCall(fetching, [threw |-> TRUE])
           ELSE IF ~written
           THEN /\ UNCHANGED registryFile
                /\ call' = AfterCall([fetching EXCEPT !.registry = registry],
                                     [threw |-> TRUE])
           ELSE /\ registryFile' = registry
                /\ call' = AfterCall([fetching EXCEPT !.registry = registry],
                                     path)
        /\ UNCHANGED pipeline

\* Writes to the lockfile while main of rundev.ts runs.
MaxWrites == 3

\* fs.Stats of the lockfile, as far as main looks at it: the size, and the
\* modification time the poller of fs.watchFile compares.
Stat(size, mtime) == [size |-> size, mtime |-> mtime]
Sizes == {1, 2}

\* main of rundev.ts from its first installDependencies on.  Child processes
\* are numbered as they are spawned; installs are the install processes
\* that have not exited, each with the async function awaiting it ("main" or
\* "callback"); servers are the dev servers spawned, with whether kill was
\* sent; devServer is the variable of main (0 before the first assignment).
RundevMains ==
    {[op |-> "rundevMain", pc |-> "installDependencies",
      stat |-> Stat(size, 0), polled |-> Stat(size, 0),
      installs |-> {[id |-> 1, awaiting |-> "main"]}, servers |-> {},
      devServer |-> 0, spawned |-> 1, writes |-> 0] : size \in Sizes}

\* spawn of runDevServer, assigned to devServer.
runDevServer(c) ==
    [c EXCEPT !.spawned = @ + 1,
              !.servers = @ \cup {[id |-> c.spawned + 1, killed |-> FALSE]},
              !.devServer = c.spawned + 1]

\* devServer.kill()
devServerKill(c) ==
    [c EXCEPT !.servers = {IF s.id = c.devServer
                           THEN [s EXCEPT !.killed = TRUE] ELSE s : s \in @}]

\* spawn of installDependencies (spawnAsync), awaited by the callback.
installDependencies(c) ==
    [c EXCEPT !.spawned = @ + 1,
              !.installs = @ \cup {[id |-> c.spawned + 1,
                                    awaiting |-> "callback"]}]

\* Something writes a new content to the lockfile: a new modification time,
\* and the size of the new content, which may be the size of the old.
LockfileWrite(size) ==
    /\ call.op = "rundevMain"
    /\ call.pc # "crashed"
    /\ call.writes < MaxWrites
    /\ call' = [call EXCEPT !.stat = Stat(size, call.stat.mtime + 1),
                            !.writes = @ + 1]
    /\ UNCHANGED <<pipeline, registryFile, store>>

\* child.on("exit") of spawnAsync for install process i.  Code 0 resolves
\* the promise and the function awaiting it goes on: main spawns the dev
\* server and registers watchFile, the callback spawns the dev server.  Any
\* other code rejects it, which nothing catches: node exits.
spawnAsyncExit(i, code) ==
    LET exited == [call EXCEPT !.installs = @ \ {i}]
    IN  /\ call.op = "rundevMain"
        /\ call.pc # "crashed"
        /\ i \in call.installs
        /\ call' = IF code # 0
                   THEN [exited EXCEPT !.pc = "crashed"]
                   ELSE IF i.awaiting = "main"
                   THEN [runDevServer(exited) EXCEPT !.pc = "watchFile",
                                                     !.polled = call.stat]
                   ELSE runDevServer(exited)
        /\ UNCHANGED <<pipeline, registryFile, store>>

\* The poller of fs.watchFile finds the lockfile's stat changed and calls
\* the listener with (current, previous); the listener runs up to its await.
watchFileListener ==
    LET current == call.stat
        previous == call.polled
        polling == [call EXCEPT !.polled = current]
    IN  /\ call.op = "rundevMain"
        /\ call.pc = "watchFile"
        /\ current # previous
        /\ call' = IF current.size # previous.size
                   THEN installDependencies(devServerKill(polling))
                   ELSE polling
        /\ UNCHANGED <<pipeline, registryFile, store>>

\* One function is called on its own, on arguments of its own.
InitCalls ==
    /\ manifest = 1
    /\ lockfiles = [file \in Lockfiles |-> 1]
    /\ \E s \in Stores : registryFile = s.file /\ store = s.store
    /\ watch = [c \in Subscriptions |-> watchFile]
    /\ version = [c \in Subscriptions |-> [last |-> First, count |-> 0]]
    /\ tasks = {}
    /\ provisioned = [c \in Subscriptions |-> First]
    /\ lockWatch = [c \in Subscriptions |->
                      [on |-> FALSE, file |-> "package-lock.json",
                       reading |-> FALSE, last |-> -1, paths |-> Null,
                       count |-> 0, since |-> 0]]
    /\ proc = NoProcess
    /\ subscribed = FALSE
    /\ others = {}
    /\ log = {}
    /\ crashed = FALSE
    /\ changes = [manifest |-> 0, lockfile |-> 0]
    /\ scheduled = {"process"}
    /\ call \in RootCalls \cup ResolveCalls \cup EnsureCalls \cup RundevMains

NextCalls ==
    \/ findProjectRoot
    \/ findNearestPackageJson
    \/ determinePackageManagerCall
    \/ rundevDeterminePackageManagerCall
    \/ getRegistryCall
    \/ ensureNodeVersion
    \/ ensurePackageManager
    \/ \E fetched, written \in BOOLEAN : ensureInstall(fetched, written)
    \/ \E size \in Sizes : LockfileWrite(size)
    \/ \E i \in (IF call.op = "rundevMain" THEN call.installs ELSE {}),
          code \in ExitCodes : spawnAsyncExit(i, code)
    \/ watchFileListener

SpecCalls == InitCalls /\ [][NextCalls]_vars

(***************************************************************************)
(* Properties                                                              *)
(***************************************************************************)
\* Nothing is pending in the chain of subscription c: no readFile, and no
\* provisioning call whose result the chain would still take.
Quiet(c) ==
    /\ ~watch[c].reading
    /\ ~lockWatch[c].reading
    /\ \A t \in tasks : t.sub = c => ~Current(t)

\* The child processes that have not exited and have had no kill request.
Unkilled ==
    {p \in others : ~p.killed}
        \cup (IF proc.status = "running" /\ ~proc.killed
              THEN {[kind |-> proc.kind, killed |-> FALSE]} ELSE {})

\* C1: at most one install-or-run process exists that has not been sent a
\* termination request: no earlier process is left running without one,
\* so when a process is spawned every earlier one has exited or been killed.
C1_AtMostOneUnkilled ==
    /\ \A p \in others : p.killed
    /\ Cardinality(Unkilled) <= 1

\* A second action's install runs while the dev server of the first,
\* killed, has not exited yet.
C1_Witness ==
    /\ proc.kind = "install" /\ proc.status = "running" /\ proc.n = 2
    /\ [kind |-> "run", killed |-> TRUE] \in others

\* C2: the dev server is spawned only after the install of the same action
\* has exited with status zero.
C2_RunOnlyAfterInstallZero ==
    proc.kind = "run" => proc.installCode = 0

\* C3: while provisioning for a new decision is in progress in the process
\* subscription, no process started for an earlier decision is left
\* running without a termination request.
C3_TeardownBeforeProvisioning ==
    \A t \in tasks :
        t.sub = "process" /\ Current(t)
            => ~(proc.status = "running" /\ ~proc.killed)


\* package.json is valid, its decision is the one the process subscription
\* holds, every notification has been acted on, and the provisioning call
\* for that decision has returned its paths.
Settled ==
    /\ "process" \in scheduled
    /\ Quiet("process")
    /\ watch["process"].last = manifest
    /\ version["process"].count >= 1
    /\ version["process"].last # Null
    /\ provisioned["process"] \notin {First, Null}
    /\ provisioned["process"] = Provisioned(version["process"].last)

\* C4: once events have stopped and provisioning has completed
\* successfully, the process started last uses the node and package
\* manager paths of the latest version decision.
C4_ConvergesToLatest ==
    Settled /\ proc.kind # "none"
        => /\ proc.nodePath = provisioned["process"].nodePath
           /\ proc.packageManagerPath
                = provisioned["process"].packageManagerPath

\* The same while the node process is alive: the live pipeline does converge.
C4_WhileAlive == ~crashed => C4_ConvergesToLatest

\* C6: at startup, with a readable valid manifest and successful
\* provisioning, before any file change exactly one install has been
\* spawned once the startup work is done.
C6_OneInitialInstall ==
    Settled /\ changes.manifest = 0 /\ changes.lockfile = 0
        => proc.n = 1

\* The same with the lockfile present at startup.
C6_WithLockfile ==
    Settled /\ changes.manifest = 0 /\ changes.lockfile = 0 /\ ~crashed
        => proc.n = 1 /\ proc.kind \in {"install", "run"}

\* C10: no install or run process is spawned with a path whose archive was
\* never extracted into the store.
C10_NoSpawnUnprovisioned ==
    proc.kind \in {"install", "run"}
        => /\ NodeKey(proc.nodePath.version) \in store
           /\ proc.packageManagerPath.dir = "package-managers"
                => <<proc.packageManagerPath.name,
                     proc.packageManagerPath.version>> \in store


(***************************************************************************)
(* Steps, recognised by what they do to the watchers.                      *)
(***************************************************************************)
\* The step is ManifestRead(c).
ManifestReadStep(c) ==
    watch[c].reading /\ ~watch'[c].reading /\ ~crashed'

\* The step is LockfileRead(c).
LockfileReadStep(c) ==
    lockWatch[c].on /\ lockWatch[c].reading /\ ~lockWatch'[c].reading
        /\ ~crashed'

\* What version resolution, provisioning and process supervision hold.
Downstream ==
    <<version, tasks, provisioned, lockWatch, proc, subscribed, others,
      registryFile, store, crashed>>

\* The manifest is unchanged since startup and the lockfile watcher of the
\* process subscription has delivered its first value and is idle.
LockfileOnly ==
    /\ ~crashed
    /\ changes.manifest = 0
    /\ Quiet("process")
    /\ lockWatch["process"].on
    /\ lockWatch["process"].last # -1

\* The lockfile changes since that watcher delivered its first value.
LockfileChanges == changes.lockfile - lockWatch["process"].since

\* C5 as stated: with the manifest unchanged, every lockfile content change
\* has triggered exactly one cycle, so once all are acted on the installs
\* spawned are the initial one and one per change.
C5_OneCyclePerChange ==
    LockfileOnly => proc.n = 1 + LockfileChanges

\* C5: each value the lockfile watcher of the process subscription delivers
\* (a content that differs from the one it delivered before) requests the
\* termination of the current process and spawns exactly one install, and a
\* read that finds the content delivered last does nothing; a dev server is
\* spawned only by the exit of the install of the same cycle; neither calls
\* version resolution, getRegistry, ensureNodeVersion or
\* ensurePackageManager; and with the manifest unchanged there are never
\* more cycles than lockfile changes.
C5_OneCyclePerDelivery ==
    /\ [](LockfileOnly => proc.n <= 1 + LockfileChanges)
    /\ [][LockfileReadStep("process")
            => /\ UNCHANGED <<version, tasks, provisioned, registryFile,
                              store, watch>>
               /\ IF lockfiles[lockWatch["process"].file]
                       # lockWatch["process"].last
                  THEN /\ proc'.kind = "install"
                       /\ proc'.status = "running"
                       /\ proc'.n = proc.n + 1
                       /\ \A p \in others' : p.killed
                       /\ subscribed /\ proc.status = "running"
                            => [kind |-> proc.kind, killed |-> TRUE]
                                   \in others'
                  ELSE UNCHANGED <<proc, subscribed, others>>]_vars
    /\ [][proc'.kind = "run" /\ proc.kind # "run"
            => /\ proc.kind = "install" /\ proc.status = "running"
               /\ proc'.n = proc.n
               /\ UNCHANGED <<version, tasks, provisioned, registryFile,
                              store>>]_vars

\* One lockfile change, manifest unchanged: the second install has exited
\* and its dev server runs while the first, killed, has not exited yet.
C5_Witness ==
    /\ changes = [manifest |-> 0, lockfile |-> 1]
    /\ proc.kind = "run" /\ proc.status = "running" /\ proc.n = 2
    /\ [kind |-> "run", killed |-> TRUE] \in others
    /\ version["process"].count = 1

\* C7: a value m2 of package.json that follows a different valid value m1
\* with an equal version decision causes no provisioning call and no
\* termination or spawn of a process.
C7_EqualDecisionNoRestart ==
    [][\A c \in Subscriptions :
          /\ ManifestReadStep(c)
          /\ watch[c].last \in 1 .. Len(ManifestTexts)
          /\ manifest \in 1 .. Len(ManifestTexts)
          /\ manifest # watch[c].last
          /\ ManifestTexts[watch[c].last].json
          /\ ManifestTexts[manifest].json
          /\ resolveVersion(parsePackageJson(watch[c].last))
               = resolveVersion(parsePackageJson(manifest))
          => UNCHANGED Downstream]_vars

\* The process subscription has taken text 2 after text 1 (only the name
\* differs) and the dev server of the startup install still runs.
C7_Witness ==
    /\ watch["process"].prev = 1 /\ watch["process"].last = 2
    /\ ~watch["process"].reading
    /\ proc.kind = "run" /\ proc.status = "running" /\ ~proc.killed
    /\ proc.n = 1 /\ proc.at.manifest = 0
    /\ version["process"].count = 1

\* C8: when the manifest watcher delivers null or a content that fails
\* JSON parsing or schema validation, the version resolver is not run on
\* it and the processes, the lockfile watcher, the registry and the store
\* are left as they are; at most the branch's line is logged.
C8_InvalidManifestFrame ==
    [][\A c \in Subscriptions :
          /\ ManifestReadStep(c)
          /\ manifest = 0 \/ ~ManifestTexts[manifest].json
          => /\ UNCHANGED Downstream
             /\ log' \subseteq log \cup {"fileErrors", "packageJsonErrors"}]_vars

\* The process subscription has taken an invalid text after text 1 and the
\* dev server and the lockfile watcher are still there.
C8_Witness ==
    /\ watch["process"].prev = 1 /\ watch["process"].last = 5
    /\ ~watch["process"].reading
    /\ proc.kind = "run" /\ proc.status = "running" /\ ~proc.killed
    /\ lockWatch["process"].on
    /\ version["process"].last = resolveVersion(parsePackageJson(1))

\* The content package.json had before it was deleted, as subscription c
\* saw it.
BeforeDeletion(c) ==
    IF watch[c].last = 0 THEN watch[c].prev ELSE watch[c].last

C11_PipelineStaysAlive == ~crashed

\* The entries of a registry object.
Entries(registry) ==
    {NodeKey(v) : v \in registry.nodeVersions}
        \cup UNION {{<<name, v>> : v \in registry.packageManagers[name]} :
                       name \in {"npm", "yarn", "pnpm"}}

\* C12: a version is in the persisted registry, or in the registry object
\* a provisioning call holds, only if its archive was downloaded and
\* extracted successfully.
C12_WriteAfterSuccess ==
    /\ Entries(registryFile) \subseteq store
    /\ \A t \in tasks : Entries(t.registry) \subseteq store

\* C14: at most one provisioning call (getRegistry, ensureNodeVersion,
\* ensurePackageManager) is in progress.
C14_SingleFlight == Cardinality(tasks) <= 1

\* C15: an entry once written to the registry file is in every later
\* written version of the file.
C15_AppendOnly ==
    [][Entries(registryFile) \subseteq Entries(registryFile')]_vars

\* C16: when the lockfile watcher of the process subscription reads a
\* lockfile that has become absent or unreadable, no process is terminated
\* and none is spawned.
C16_NullLockfileLeftAlone ==
    [][/\ LockfileReadStep("process")
       /\ lockfiles[lockWatch["process"].file] = 0
       /\ lockWatch["process"].last \notin {-1, 0}
       => UNCHANGED <<proc, subscribed, others>>]_vars

\* C17, the first value: once a provisioning result has reached the
\* lockfile stage and nothing is pending, the watchFile of the lockfile has
\* delivered the file's current content, null for a file that is absent.
C17_FirstValueOnSubscription ==
    \A c \in scheduled :
        /\ HasLockfileWatch(c)
        /\ provisioned[c] \notin {First, Null}
        /\ Quiet(c)
        /\ proc.status # "error"
        => /\ lockWatch[c].on
           /\ lockWatch[c].last = lockfiles[lockWatch[c].file]

\* C20: when a new value reaches the process switchMap while the install
\* of the current action is running, that install is sent a termination
\* request; a dev server is spawned only by the exit of an install that is
\* still subscribed to and was not killed, and belongs to the same action;
\* the exit of a cancelled process spawns nothing.
C20_CancelledInstallNeverRuns ==
    /\ [][/\ LockfileReadStep("process")
          /\ proc'.n = proc.n + 1
          /\ subscribed /\ proc.kind = "install" /\ proc.status = "running"
          => [kind |-> "install", killed |-> TRUE] \in others']_vars
    /\ [][proc'.kind = "run" /\ proc.kind # "run"
            => /\ proc.kind = "install" /\ proc.status = "running"
               /\ subscribed /\ ~proc.killed
               /\ proc'.n = proc.n]_vars
    /\ [][\A q \in others' \ others : q.killed]_vars
    /\ [][others' # others /\ others' \subseteq others
            => UNCHANGED <<proc, subscribed>>]_vars

\* The install of the first action was cancelled by a lockfile change and
\* has not exited yet, while the install of the second action has exited
\* and its dev server runs.
C20_Witness ==
    /\ [kind |-> "install", killed |-> TRUE] \in others
    /\ proc.kind = "run" /\ proc.status = "running" /\ ~proc.killed
    /\ proc.n = 2


\* A version range that is present and has a minimum version.
Parsable(range) == range # UNDEF /\ semverMinVersion(range) # UNDEF

\* The candidates of a package.json in the order of the resolution: the
\* packageManager token (present when it reads name@x.y.z), then the three
\* engines fields.
Candidates(packageJson) ==
    LET token == packageManagerRegex(packageJson.packageManager)
        engines == packageJson.engines
        field(name) == IF engines = Null THEN UNDEF
                       ELSE CASE name = "npm"  -> engines.npm
                              [] name = "yarn" -> engines.yarn
                              [] name = "pnpm" -> engines.pnpm
    IN  << [type |-> "packageManager", name |-> token.name,
            range |-> token.version],
           [type |-> "engines", name |-> "npm", range |-> field("npm")],
           [type |-> "engines", name |-> "yarn", range |-> field("yarn")],
           [type |-> "engines", name |-> "pnpm", range |-> field("pnpm")] >>

\* The first candidate that is present and parsable, the bundled npm when
\* there is none.
FirstParsable(packageJson) ==
    LET candidates == Candidates(packageJson)
        qualifying == {i \in 1 .. 4 : Parsable(candidates[i].range)}
        first == CHOOSE i \in qualifying : \A j \in qualifying : i <= j
    IN  IF qualifying = {}
        THEN [type |-> "bundled", name |-> "npm", version |-> UNDEF]
        ELSE [type |-> candidates[first].type,
              name |-> candidates[first].name,
              version |-> semverMinVersion(candidates[first].range)]

\* What a resolution that has ended names: part_000 returns type, name and
\* version; rundev.ts returns a spec with name and version, or undefined
\* for the bundled npm.
Named(result) ==
    IF result = NoSpec
    THEN [name |-> "npm", version |-> UNDEF]
    ELSE [name |-> result.name, version |-> result.version]

ResolvedInOrder(c) ==
    c.status # "running" =>
        /\ c.status = "complete"
        /\ Named(c.result) = [name |-> FirstParsable(c.packageJson).name,
                              version |-> FirstParsable(c.packageJson).version]
        /\ c.op = "determinePackageManager"
             => c.result.type = FirstParsable(c.packageJson).type

\* C18: package-manager resolution returns the first candidate, in the
\* order packageManager token, engines.npm, engines.yarn, engines.pnpm, that
\* is present and has a parsable minimum version, with its provenance; a
\* present but unparsable candidate is skipped, and with no qualifying
\* candidate the result is the bundled npm with no version.
C18_ResolutionOrder ==
    call.op \in {"determinePackageManager", "rundevDeterminePackageManager"}
        => ResolvedInOrder(call)

\* The same of determinePackageManager of part_000 alone.
C18_PipelineResolution ==
    call.op = "determinePackageManager" => ResolvedInOrder(call)

C18_PipelineWitness ==
    /\ call.op = "determinePackageManager"
    /\ call.status = "complete"
    /\ call.packageJson.packageManager = "npm@99999999999999999999.0.0"
    /\ call.packageJson.engines # Null
    /\ call.packageJson.engines.npm = "latest"
    /\ call.result = PackageManagerResult("engines", "yarn", "1.22.0")

\* A root search on its way: the directories looked at go from the start
\* directory strictly child to parent, none of those left behind holds the
\* marker, it ends on the first directory that holds it, and it fails only
\* at the filesystem root with the marker in no directory.
RootLocated(c) ==
    /\ Len(c.emitted) <= c.startPath + 1
    /\ \A i \in 1 .. Len(c.emitted) : c.emitted[i] = c.startPath - (i - 1)
    /\ c.path = c.emitted[Len(c.emitted)]
    /\ \A d \in (c.path + 1) .. c.startPath : c.markers[d] = "absent"
    /\ c.status = "complete" => c.markers[c.path] # "absent"
    /\ c.status = "error" =>
         /\ c.path = 0
         /\ \A d \in 0 .. c.startPath : c.markers[d] = "absent"

\* C19: root location returns the nearest directory, the start directory
\* included, that contains the marker, visiting candidates strictly child
\* to parent; with the marker in no directory up to the filesystem root it
\* ends with a root-not-found failure.
C19_NearestRoot ==
    call.op \in {"findProjectRoot", "findNearestPackageJson"}
        => RootLocated(call)

\* The same of findProjectRoot of part_000 alone.
C19_PipelineRoot ==
    call.op = "findProjectRoot" => RootLocated(call)

C19_PipelineWitness ==
    /\ call.op = "findProjectRoot"
    /\ call.status = "complete"
    /\ call.startPath = MaxDepth
    /\ call.path = 1
    /\ call.markers[1] = "invalid"
    /\ call.markers[0] = "valid"

\* An ensure function is being called twice, and for the bundled npm.
Ensuring == call.op \in {"ensureNodeVersion", "ensurePackageManager"}
Bundled ==
    /\ call.op = "ensurePackageManager"
    /\ call.decision.packageManager.type = "bundled"

\* With the bundled npm, ensurePackageManager downloads nothing and leaves
\* the registry object and registry.json as they are.
BundledLeftAlone ==
    /\ [](Bundled => /\ call.fetches = 0
                     /\ call.registry \in {DEFAULT_REGISTRY, registryFile})
    /\ [][Bundled => registryFile' = registryFile]_vars

DecisionOnDisk == resolveVersion(parsePackageJson(manifest))

\* Subscription c has provisioned decision D and idles on an unresolvable
\* package.json: the last value of its version stage is null, and
\* package.json now holds a content that resolves to D again.
BackToProvisioned(c) ==
    /\ HasProvisioning(c)
    /\ version[c].last = Null
    /\ tasks = {}
    /\ manifest # 0
    /\ parsePackageJson(manifest) # Null
    /\ DecisionOnDisk # Null
    /\ provisioned[c] = Provisioned(DecisionOnDisk)

\* C21: when package.json goes from a content with decision D to one whose
\* decision is unresolvable and back to one that resolves to D, the
\* unresolvable content is logged and leaves the dev server running, and the
\* return to D starts no provisioning and neither terminates nor restarts
\* the dev server.
C21_ReturnToDecisionNoRestart ==
    /\ [][\A c \in scheduled :
            ManifestReadStep(c) /\ Route(c, manifest) = "versionErrors"
                => /\ c = "versionErrors" => c \in log'
                   /\ UNCHANGED <<tasks, provisioned, lockWatch, proc,
                                  subscribed, others>>]_vars
    /\ [][\A c \in scheduled :
            ManifestReadStep(c) /\ BackToProvisioned(c)
                => UNCHANGED <<tasks, provisioned, lockWatch, proc,
                               subscribed, others>>]_vars

\* The unresolvable step alone: it is logged and leaves everything
\* downstream alone.
C21_UnresolvableIdles ==
    [][\A c \in scheduled :
         ManifestReadStep(c) /\ Route(c, manifest) = "versionErrors"
             => /\ c = "versionErrors" => c \in log'
                /\ UNCHANGED <<tasks, provisioned, lockWatch, proc,
                               subscribed, others>>]_vars

\* The dev servers of main of rundev.ts that were spawned and not sent kill.
UnkilledServers ==
    {s \in call.servers : ~s.killed}

\* C22: in main of rundev.ts, whatever the lockfile callbacks, every dev
\* server that was spawned and not sent kill is the one held in devServer,
\* so there are never two un-killed dev servers, and never two install
\* processes running at once.
C22_OneServerOneInstall ==
    call.op = "rundevMain" =>
        /\ \A s \in UnkilledServers : s.id = call.devServer
        /\ Cardinality(UnkilledServers) <= 1
        /\ Cardinality(call.installs) <= 1

\* C5 in main of rundev.ts: a lockfile content change the watcher notices
\* while no install is running triggers one cycle, the dev server sent kill
\* and one install spawned.
C5_RundevChangeStartsCycle ==
    [][call.op = "rundevMain" /\ call.pc = "watchFile"
         /\ call.installs = {} /\ call'.polled # call.polled
            => /\ Cardinality(call'.installs) = 1
               /\ UnkilledServers' = {}]_vars

============================================================================
